---- MODULE Spec2Model ----
(***************************************************************************)
(* Verification model of nodi-edge.                                        *)
(*                                                                         *)
(* Part 1: the lifecycle engine (nodi_edge/app.py, class App) together     *)
(*         with the worker base (nodi_edge/intf_app.py, InterfaceApp).     *)
(* Part 2: the service supervisor (nodi_edge_apps/supervisor/core.py).     *)
(*                                                                         *)
(* Spec    is the engine/worker state machine.                             *)
(* SpecSup is the supervisor state machine.                                *)
(***************************************************************************)
EXTENDS Integers, Sequences, FiniteSets, TLC

(***************************************************************************)
(* Bounds of the model                                                     *)
(***************************************************************************)
MaxExc == 3          \* cap on exception_count

(***************************************************************************)
(* Part 1 - lifecycle engine                                               *)
(***************************************************************************)
AppState == {"PREPARE", "CONFIGURE", "CONNECT", "EXECUTE", "RECOVER", "DISCONNECT"}

Stages == {"prepare", "configure", "connect", "execute", "recover", "disconnect"}

\* The relation handed to FiniteStateMachine.limit_transitions by _setup_fsm.
AllowedTransitions ==
    [s \in AppState |->
        CASE s = "PREPARE"    -> {"CONFIGURE"}
          [] s = "CONFIGURE"  -> {"CONNECT"}
          [] s = "CONNECT"    -> {"EXECUTE", "RECOVER"}
          [] s = "EXECUTE"    -> {"RECOVER"}
          [] s = "RECOVER"    -> {"EXECUTE", "DISCONNECT"}
          [] s = "DISCONNECT" -> {"CONNECT"}]

\* The relation the specification (4.2) and tests/test_app_reconfigure.py expect.
CanonicalAllowed ==
    [s \in AppState |->
        CASE s = "PREPARE"    -> {"CONFIGURE"}
          [] s = "CONFIGURE"  -> {"CONNECT"}
          [] s = "CONNECT"    -> {"EXECUTE", "RECOVER"}
          [] s = "EXECUTE"    -> {"CONFIGURE", "RECOVER"}
          [] s = "RECOVER"    -> {"EXECUTE", "DISCONNECT"}
          [] s = "DISCONNECT" -> {"CONNECT"}]

NoRow == [absent |-> TRUE]

\* A row of the conns table as the worker sees it: the connection-level tuple
\* (host, port, timeout, retry) abstracted to one value, everything else
\* (blocks, properties, updated_at) to another.
InfoVals == {"info_a", "info_b"}

OtherVals == {"other_a", "other_b"}

ConnRows == [info : InfoVals, other : OtherVals]

VARIABLES
    fsm_allowed,        \* FSM: allowed-transition relation
    fsm_state,          \* FSM: current state
    fsm_running,        \* FSM: is_running (cleared by stop())
    fsm_refused,        \* FSM: a transition request was refused (on_error called)
    exception_count,    \* AppStatistics.exception_count
    done,               \* AppStatistics.<stage>.done
    databus,            \* App._databus: "none" | "created" | "running"
    reconfigure_event,  \* App._reconfigure_event (threading.Event)
    hpc,                \* position inside disconnect_handler: "top" | "hooked"
    main_pc,            \* main thread: "loop" (App.start manage loop) | "returned"
    exit_called,        \* argument of the last sys.exit() call, -1 if none
    exit_thread,        \* thread that made that call: "none" | "driver" | "bus"
    exit_status,        \* exit status of the process, -1 while it is alive
    db_conn,            \* the worker's row in the conns table (NoRow if deleted)
    conn_config,        \* InterfaceApp._conn_config (NoRow stands for None)
    subscribed,         \* config_reload callback registered on the bus
    last_op,            \* history: the last engine operation that acted
    reload_pending,     \* history: unchanged config_reload seen in EXECUTE, CONFIGURE not yet visited
    done_sets           \* history: per stage, false->true flips of done since the last reset in DISCONNECT

evars == <<fsm_allowed, fsm_state, fsm_running, fsm_refused, exception_count, done,
           databus, reconfigure_event, hpc, main_pc, exit_called, exit_thread,
           exit_status, db_conn, conn_config, subscribed, last_op,
           reload_pending, done_sets>>

VARIABLES
    sup_pc,         \* supervisor driver: "prepare" | "configure" | "connect" | "subscribed" | "loaded" | "synced" | "execute"
    registry,       \* app_registry table: app-id -> row or NoRow
    conns,          \* conns table: connection-id -> row or NoRow
    units,          \* unit files on disk: set of <<category, app-id>>
    services,       \* SupervisorApp._services: app-id -> ServiceState or NoSvc
    sysd_active,    \* services the service manager reports active: set of <<category, app-id>>
    now,            \* time.monotonic(), in seconds
    hc_starts,      \* history: per app-id, ages of the starts that healthchecks issued in the last 300 s
                    \* since another operation last activated the service
    sup_last,       \* history: the last operation of the supervisor itself: [op, arg]
    rm_pending      \* _on_conn_removed has deleted the registry row of this id and not yet popped the map entry ("none" otherwise)

svars == <<sup_pc, registry, conns, units, services, sysd_active, now, hc_starts, sup_last,
           rm_pending>>

VARIABLES
    license_env,    \* environment: the LicenseManager can be constructed (PyJWT importable)
    license_mgr,    \* SupervisorApp._license_mgr is set
    token_cache,    \* license/tokens/<app-id>.token: addon-id -> token or NoToken
    wall,           \* int(time.time()), epoch seconds
    events,         \* history: events published by the last addon operation, in order
    cli_log         \* history: service-manager verbs invoked by the last addon operation: set of <<verb, app-id>>

avars == <<license_env, license_mgr, token_cache, wall, events, cli_log>>

VARIABLES
    lk_path,        \* per thread, the supervisor code path it is running ("idle" if none)
    lk_idx,         \* per thread, the position of its next step in that path
    lock_holder,    \* SupervisorApp._lock: the thread holding it, "free" if none
    lk_last         \* history: the last step taken: [thread, path, k, v, held]

lvars == <<lk_path, lk_idx, lock_holder, lk_last>>

VARIABLES
    cic_prev,       \* _is_conn_info_changed: argument prev (snapshot before the reload)
    cic_curr,       \* _is_conn_info_changed: argument curr (config after the reload)
    cic_pc,         \* "in" before the call, "out" after it returned
    cic_out         \* the value returned

fvars == <<cic_prev, cic_curr, cic_pc, cic_out>>

VARIABLES
    cn_pc,          \* on_connect: "idle" | "sync" | "sync_reload" | "write" | "reload" | "start" | "done"
    cn_conns,       \* select_conns_enabled(): app-ids of the enabled conns of a known protocol
    cn_enabled,     \* app-ids whose service-map record has enabled = true
    cn_todo,        \* app-ids the current loop has not visited yet
    cn_need_reload, \* the local need_reload of the function being run
    cn_log          \* history: unit writes and service-manager commands, in order: <<verb, app-id>>

cvars == <<cn_pc, cn_conns, cn_enabled, cn_todo, cn_need_reload, cn_log>>

VARIABLES
    retry_waited,   \* history: the last connect_handler waited on the retry timer before connecting
    db_handle       \* InterfaceApp._db: "none" (not opened, or closed and set to None) | "open";
                    \* "assumed" in the specifications that take the store as always usable

hvars == <<retry_waited, db_handle>>

VARIABLES
    mt_elapsed,     \* app_statistics.execute.elapsed_time
    mt_samples,     \* execute_maf: the samples added, oldest first
    mt_last         \* history: the last tick: [ok, took, added] (added = -1: no sample)

mvars == <<mt_elapsed, mt_samples, mt_last>>

xvars == <<fvars, cvars, hvars, mvars>>

vars == <<evars, svars, avars, lvars, xvars>>

ProcessAlive == exit_status = -1

DriverReady == ProcessAlive /\ fsm_running

EInit ==
    /\ fsm_allowed = AllowedTransitions
    /\ fsm_state = "PREPARE"
    /\ fsm_running = TRUE
    /\ fsm_refused = FALSE
    /\ exception_count = 0
    /\ done = [s \in Stages |-> FALSE]
    /\ databus = "none"
    /\ reconfigure_event = FALSE
    /\ hpc = "top"
    /\ main_pc = "loop"
    /\ exit_called = -1
    /\ exit_thread = "none"
    /\ exit_status = -1
    /\ db_conn \in ConnRows \cup {NoRow}
    /\ conn_config = NoRow
    /\ subscribed = FALSE
    /\ last_op = "init"
    /\ reload_pending = FALSE
    /\ done_sets = [s \in Stages |-> 0]

(***************************************************************************)
(* FiniteStateMachine (nodi_libs.fsm): transition(next) switches only      *)
(* along an allowed edge; a refused request leaves the state unchanged     *)
(* and is reported through on_error.                                       *)
(***************************************************************************)
FsmTarget(cur, next) == IF next \in fsm_allowed[cur] THEN next ELSE cur

FsmRefuses(cur, next) == next \notin fsm_allowed[cur]

Transition(next) ==
    /\ fsm_state' = FsmTarget(fsm_state, next)
    /\ fsm_refused' = (fsm_refused \/ FsmRefuses(fsm_state, next))

\* fsm.stop() followed by sys.exit(code) inside a stage handler.  The handler
\* runs on the FSM driver thread, so SystemExit ends that thread only; the
\* process lives on until the main thread leaves App.start.
StopAndExit(code) ==
    /\ fsm_running' = FALSE
    /\ exit_called' = code
    /\ exit_thread' = "driver"
    /\ UNCHANGED <<fsm_state, fsm_refused>>

\* Targets requested by the stage handlers.
PrepareTarget == "CONFIGURE"
ConfigureTarget == "CONNECT"
ConnectOkTarget == "EXECUTE"
ConnectFailTarget == "RECOVER"
ExecuteFailTarget == "RECOVER"
RecoverOkTarget_Mut == "DISCONNECT"

RecoverOkTarget == "EXECUTE"
RecoverFailTarget_Mut == "CONNECT"
RecoverFailTarget == "DISCONNECT"
DisconnectTarget_Mut == "RECOVER"

DisconnectTarget == "CONNECT"

\* "One-time log" block of a stage: set done on the first pass.
MarkDone(d, stage) == [d EXCEPT ![stage] = TRUE]

CountFlip(stage) ==
    IF done[stage] THEN done_sets ELSE [done_sets EXCEPT ![stage] = @ + 1]

ResetDoneFlagsForRetry_Mut(d) == [d EXCEPT !["connect"] = FALSE]

\* _reset_done_flags_for_retry
ResetDoneFlagsForRetry(d) == [d EXCEPT !["connect"] = FALSE, !["execute"] = FALSE]

\* _reset_done_flags_for_success (the done flags; the counter is reset next to it)
ResetDoneFlagsForSuccess(d) == [d EXCEPT !["recover"] = FALSE, !["disconnect"] = FALSE]

\* InterfaceApp._is_conn_info_changed
IsConnInfoChanged(prev, curr) ==
    IF prev = NoRow THEN TRUE ELSE prev.info # curr.info

(***************************************************************************)
(* Stage handlers (FSM driver thread)                                      *)
(***************************************************************************)
PrepareHandler(outcome) ==
    /\ UNCHANGED <<svars, avars, lvars, fvars, cvars, mvars, retry_waited>>
    /\ db_handle' = IF db_handle = "assumed" \/ outcome = "bus_raise" THEN db_handle ELSE "open"
    /\ DriverReady /\ fsm_state = "PREPARE" /\ hpc = "top"
    /\ last_op' = IF outcome = "ok" THEN "prepare_ok" ELSE "prepare_fail"
    /\ CASE outcome = "ok" ->
              /\ db_conn # NoRow
              /\ databus' = "created"
              /\ conn_config' = db_conn
              /\ done' = MarkDone(done, "prepare")
              /\ done_sets' = CountFlip("prepare")
              /\ Transition(PrepareTarget)
              /\ UNCHANGED <<exception_count, fsm_running, exit_called, exit_thread>>
         [] outcome = "bus_raise" ->
              /\ exception_count < MaxExc
              /\ exception_count' = exception_count + 1
              /\ StopAndExit(1)
              /\ UNCHANGED <<databus, conn_config, done, done_sets>>
         [] outcome = "hook_raise" ->
              /\ exception_count < MaxExc
              /\ databus' = "created"
              /\ conn_config' \in {conn_config} \cup (IF db_conn = NoRow THEN {} ELSE {db_conn})
              /\ exception_count' = exception_count + 1
              /\ StopAndExit(1)
              /\ UNCHANGED <<done, done_sets>>
    /\ UNCHANGED <<fsm_allowed, reconfigure_event, hpc, main_pc, exit_status, db_conn,
                   subscribed, reload_pending>>

ConfigureHandler(ok) ==
    /\ UNCHANGED <<svars, avars, lvars, xvars>>
    /\ DriverReady /\ fsm_state = "CONFIGURE" /\ hpc = "top"
    /\ IF databus = "running"
       THEN \* "app already running": stop and exit before on_configure
            /\ last_op' = "configure_fail"
            /\ StopAndExit(1)
            /\ UNCHANGED <<exception_count, conn_config, done, done_sets, reload_pending>>
       ELSE IF ok
       THEN /\ db_conn # NoRow
            /\ last_op' = "configure_ok"
            /\ conn_config' = db_conn
            /\ done' = MarkDone(done, "configure")
            /\ done_sets' = CountFlip("configure")
            /\ reload_pending' = FALSE
            /\ Transition(ConfigureTarget)
            /\ UNCHANGED <<exception_count, fsm_running, exit_called, exit_thread>>
       ELSE /\ exception_count < MaxExc
            /\ last_op' = "configure_fail"
            /\ conn_config' \in {conn_config} \cup (IF db_conn = NoRow THEN {} ELSE {db_conn})
            /\ exception_count' = exception_count + 1
            /\ StopAndExit(1)
            /\ UNCHANGED <<done, done_sets, reload_pending>>
    /\ UNCHANGED <<fsm_allowed, databus, reconfigure_event, hpc, main_pc, exit_status,
                   db_conn, subscribed>>

\* "if exception_count >= 1: retry_timer.wait()"
RetryWaitNeeded_Mut(count) == count >= 2

RetryWaitNeeded_MutOnce(count) == count = 1

RetryWaitNeeded(count) == count >= 1

ConnectHandler(outcome) ==
    /\ UNCHANGED <<svars, avars, lvars, fvars, cvars, mvars, db_handle>>
    /\ DriverReady /\ fsm_state = "CONNECT" /\ hpc = "top"
    /\ retry_waited' = RetryWaitNeeded(exception_count)
    /\ last_op' = IF outcome = "ok" THEN "connect_ok" ELSE "connect_fail"
    /\ CASE outcome = "ok" ->
              /\ databus' = "running"
              /\ subscribed' = TRUE
              /\ done' = MarkDone(done, "connect")
              /\ done_sets' = CountFlip("connect")
              /\ Transition(ConnectOkTarget)
              /\ UNCHANGED exception_count
         [] outcome = "bus_raise" ->
              /\ exception_count < MaxExc
              /\ exception_count' = exception_count + 1
              /\ Transition(ConnectFailTarget)
              /\ UNCHANGED <<databus, subscribed, done, done_sets>>
         [] outcome = "hook_raise" ->
              /\ exception_count < MaxExc
              /\ databus' = "running"
              /\ subscribed' \in {subscribed, TRUE}
              /\ exception_count' = exception_count + 1
              /\ Transition(ConnectFailTarget)
              /\ UNCHANGED <<done, done_sets>>
    /\ UNCHANGED <<fsm_allowed, fsm_running, reconfigure_event, hpc, main_pc, exit_called,
                   exit_thread, exit_status, db_conn, conn_config, reload_pending>>

\* AppConfig.exception_limit (default).
exception_limit == 1

\* _log_fallback writes its warning only while the counter is within the limit.
LogFallbackLogs(count) == count <= exception_limit

\* One iteration of the loop of execute_handler.
ExecuteTick(ok) ==
    /\ UNCHANGED <<svars, avars, lvars, xvars>>
    /\ DriverReady /\ fsm_state = "EXECUTE" /\ hpc = "top"
    /\ IF ok
       THEN /\ last_op' = "execute_ok"
            /\ IF ~done["execute"]
               THEN /\ done' = ResetDoneFlagsForSuccess(MarkDone(done, "execute"))
                    /\ exception_count' = 0
               ELSE UNCHANGED <<done, exception_count>>
            /\ done_sets' = CountFlip("execute")
            /\ UNCHANGED <<fsm_state, fsm_refused>>
       ELSE /\ exception_count < MaxExc
            /\ last_op' = "execute_fail"
            /\ exception_count' = exception_count + 1
            /\ Transition(ExecuteFailTarget)
            /\ UNCHANGED <<done, done_sets>>
    /\ UNCHANGED <<fsm_allowed, fsm_running, databus, reconfigure_event, hpc, main_pc,
                   exit_called, exit_thread, exit_status, db_conn, conn_config,
                   subscribed, reload_pending>>

RecoverHandler(ok) ==
    /\ UNCHANGED <<svars, avars, lvars, xvars>>
    /\ DriverReady /\ fsm_state = "RECOVER" /\ hpc = "top"
    /\ IF ok
       THEN /\ last_op' = "recover_ok"
            /\ done' = MarkDone(done, "recover")
            /\ done_sets' = CountFlip("recover")
            /\ Transition(RecoverOkTarget)
       ELSE /\ last_op' = "recover_fail"
            /\ Transition(RecoverFailTarget)
            /\ UNCHANGED <<done, done_sets>>
    /\ UNCHANGED <<fsm_allowed, fsm_running, exception_count, databus, reconfigure_event,
                   hpc, main_pc, exit_called, exit_thread, exit_status, db_conn,
                   conn_config, subscribed, reload_pending>>

\* disconnect_handler, first part: the on_disconnect hook and its one-time log.
DisconnectHook(ok) ==
    /\ UNCHANGED <<svars, avars, lvars, fvars, cvars, mvars, retry_waited>>
    /\ db_handle' = IF db_handle = "open" /\ ok THEN "none" ELSE db_handle
    /\ DriverReady /\ fsm_state = "DISCONNECT" /\ hpc = "top"
    /\ hpc' = "hooked"
    /\ IF ok
       THEN /\ last_op' = "disconnect_hook_ok"
            /\ done' = MarkDone(done, "disconnect")
            /\ done_sets' = CountFlip("disconnect")
       ELSE /\ last_op' = "disconnect_hook_fail"
            /\ UNCHANGED <<done, done_sets>>
    /\ UNCHANGED <<fsm_allowed, fsm_state, fsm_running, fsm_refused, exception_count,
                   databus, reconfigure_event, main_pc, exit_called, exit_thread,
                   exit_status, db_conn, conn_config, subscribed, reload_pending>>

\* disconnect_handler, second part: bus teardown, _reset_done_flags_for_retry,
\* retry timer reset, transition.  The handler is not cancelled midway.
DisconnectFinish(bus_ok) ==
    /\ UNCHANGED <<svars, avars, lvars, xvars>>
    /\ ProcessAlive /\ fsm_state = "DISCONNECT" /\ hpc = "hooked"
    /\ hpc' = "top"
    /\ last_op' = "disconnect_finish"
    /\ databus' \in IF databus = "running" /\ ~bus_ok
                    THEN {"created", "running"}
                    ELSE IF databus = "running" THEN {"created"} ELSE {databus}
    /\ subscribed' = (subscribed /\ databus' = "running")
    /\ done' = ResetDoneFlagsForRetry(done)
    /\ done_sets' = [s \in Stages |-> 0]
    /\ Transition(DisconnectTarget)
    /\ UNCHANGED <<fsm_allowed, fsm_running, exception_count, reconfigure_event, main_pc,
                   exit_called, exit_thread, exit_status, db_conn, conn_config,
                   reload_pending>>

(***************************************************************************)
(* Other threads                                                           *)
(***************************************************************************)
\* _sigterm_handler: fsm.stop()
Sigterm ==
    /\ UNCHANGED <<svars, avars, lvars, xvars>>
    /\ ProcessAlive /\ fsm_running
    /\ fsm_running' = FALSE
    /\ last_op' = "sigterm"
    /\ UNCHANGED <<fsm_allowed, fsm_state, fsm_refused, exception_count, done, databus,
                   reconfigure_event, hpc, main_pc, exit_called, exit_thread, exit_status,
                   db_conn, conn_config, subscribed, reload_pending, done_sets>>

\* _stop's bus teardown: disconnect() on the session, exceptions swallowed.
\* The set of session states it can leave behind.
BestEffortDisconnect_Mut(bus, bus_ok) == {bus}

BestEffortDisconnect(bus, bus_ok) ==
    IF bus # "running" THEN {bus}
    ELSE IF bus_ok THEN {"created"} ELSE {"created", "running"}

\* App.start after its manage loop saw is_running false: _stop(), then return.
\* The main thread returning normally ends the process with status 0.
MainStop(bus_ok) ==
    /\ UNCHANGED <<svars, avars, lvars, xvars>>
    /\ ProcessAlive /\ ~fsm_running /\ main_pc = "loop" /\ hpc = "top"
    /\ main_pc' = "returned"
    /\ databus' \in BestEffortDisconnect(databus, bus_ok)
    /\ subscribed' = (subscribed /\ databus' = "running")
    /\ exit_status' = 0
    /\ last_op' = IF bus_ok THEN "main_stop" ELSE "main_stop_bus_raise"
    /\ UNCHANGED <<fsm_allowed, fsm_state, fsm_running, fsm_refused, exception_count, done,
                   reconfigure_event, hpc, exit_called, exit_thread, db_conn, conn_config,
                   reload_pending, done_sets>>

\* One pass of the manage loop in App.start: the loop test saw is_running true,
\* the manage timer elapsed, _do_manage ran.  A raising on_manage is routed to
\* _log_fallback only.
DoManage(ok) ==
    /\ UNCHANGED <<svars, avars, lvars, xvars>>
    /\ ProcessAlive /\ fsm_running /\ main_pc = "loop"
    /\ last_op' = IF ok THEN "manage_ok" ELSE "manage_fail"
    /\ UNCHANGED <<fsm_allowed, fsm_state, fsm_running, fsm_refused, exception_count, done,
                   databus, reconfigure_event, hpc, main_pc, exit_called, exit_thread,
                   exit_status, db_conn, conn_config, subscribed, reload_pending, done_sets>>

\* App.request_reconfigure(): sets the one-shot event.
RequestReconfigure ==
    /\ UNCHANGED <<svars, avars, lvars, xvars>>
    /\ ProcessAlive
    /\ reconfigure_event' = TRUE
    /\ last_op' = "request_reconfigure"
    /\ UNCHANGED <<fsm_allowed, fsm_state, fsm_running, fsm_refused, exception_count, done,
                   databus, hpc, main_pc, exit_called, exit_thread, exit_status, db_conn,
                   conn_config, subscribed, reload_pending, done_sets>>

\* InterfaceApp._on_config_reload_tag (bus thread).
ConfigReload ==
    /\ UNCHANGED <<svars, avars, lvars, xvars>>
    /\ ProcessAlive /\ subscribed /\ databus = "running"
    /\ IF db_handle = "none" \/ db_conn = NoRow
       THEN \* _load_config raises: no handle (self._db is None), or "connection not found"
            /\ last_op' = "reload_raise"
            /\ UNCHANGED <<conn_config, reconfigure_event, reload_pending, exit_called,
                           exit_thread>>
       ELSE /\ conn_config' = db_conn
            /\ IF IsConnInfoChanged(conn_config, db_conn)
               THEN /\ last_op' = "reload_exit"
                    /\ exit_called' = 0
                    /\ exit_thread' = "bus"
                    /\ UNCHANGED <<reconfigure_event, reload_pending>>
               ELSE /\ last_op' = "reload_reconfigure"
                    /\ reconfigure_event' = TRUE
                    /\ reload_pending' = (reload_pending \/ (fsm_state = "EXECUTE" /\ fsm_running))
                    /\ UNCHANGED <<exit_called, exit_thread>>
    /\ UNCHANGED <<fsm_allowed, fsm_state, fsm_running, fsm_refused, exception_count, done,
                   databus, hpc, main_pc, exit_status, db_conn, subscribed, done_sets>>

\* The out-of-band importer rewrites (or deletes) the worker's connection row.
DbUpdate(row) ==
    /\ UNCHANGED <<svars, avars, lvars, xvars>>
    /\ ProcessAlive /\ row # db_conn
    /\ db_conn' = row
    /\ last_op' = "db_update"
    /\ UNCHANGED <<fsm_allowed, fsm_state, fsm_running, fsm_refused, exception_count, done,
                   databus, reconfigure_event, hpc, main_pc, exit_called, exit_thread,
                   exit_status, conn_config, subscribed, reload_pending, done_sets>>

ENext ==
    \/ \E o \in {"ok", "bus_raise", "hook_raise"} : PrepareHandler(o)
    \/ \E ok \in BOOLEAN : ConfigureHandler(ok)
    \/ \E o \in {"ok", "bus_raise", "hook_raise"} : ConnectHandler(o)
    \/ \E ok \in BOOLEAN : ExecuteTick(ok)
    \/ \E ok \in BOOLEAN : RecoverHandler(ok)
    \/ \E ok \in BOOLEAN : DisconnectHook(ok)
    \/ \E ok \in BOOLEAN : DisconnectFinish(ok)
    \/ Sigterm
    \/ \E ok \in BOOLEAN : MainStop(ok)
    \/ \E ok \in BOOLEAN : DoManage(ok)
    \/ RequestReconfigure
    \/ ConfigReload
    \/ \E row \in ConnRows \cup {NoRow} : DbUpdate(row)

(***************************************************************************)
(* Part 2 - service supervisor                                             *)
(***************************************************************************)
MAX_RESTART_COUNT == 5

RESTART_COUNT_RESET_S == 300

\* Granularity of the model's monotonic clock and the number of clock steps.
ClockStep == RESTART_COUNT_RESET_S \div 2

MaxTicks == 3

MaxNow == MaxTicks * ClockStep

ConnIds == {"c1"}

\* ADDON_MODULES
AddonIds == {"vplc"}

AppIds == ConnIds \cup AddonIds

Categories == {"interface", "addon"}

NoSvc == [absent |-> TRUE]

\* A row of the conns table as the supervisor sees it: whether its protocol
\* code is a key of PROTOCOL_MODULES, and its use flag.
SupConnRows == [known : BOOLEAN, use : BOOLEAN]

\* ServiceState(app_id, category, module, enabled, conn_id): a fresh record.
NewService(category, enabled) ==
    [category |-> category, enabled |-> enabled, active |-> FALSE,
     restart_count |-> 0, last_restart_ts |-> 0]

\* No cached or stored token; a null expires-at.
NoToken == [absent |-> TRUE]

Null == -1

\* The interface row is written disabled.
InterfaceRow_Mut ==
    [category |-> "interface", enabled |-> FALSE,
     license_token |-> NoToken, license_expires_at |-> Null]

\* EdgeDB.upsert_app(app_id, "interface", module, enabled=True, conn_id=...)
InterfaceRow ==
    [category |-> "interface", enabled |-> TRUE,
     license_token |-> NoToken, license_expires_at |-> Null]

\* EdgeDB.upsert_app(addon_id, "addon", module, enabled=False)
AddonRow ==
    [category |-> "addon", enabled |-> FALSE,
     license_token |-> NoToken, license_expires_at |-> Null]

\* _get_service_name / _get_service_path: a unit is named by category and app-id.
ServiceName(app_id, category) == <<category, app_id>>

HandlersLive == sup_pc \in {"subscribed", "loaded", "synced", "execute"}

Op(name, arg) == [op |-> name, arg |-> arg]

\* A history of start ages grows older by d; starts older than the reset
\* window are forgotten.
RECURSIVE Aged(_, _)
Aged(log, d) ==
    IF log = <<>> THEN <<>>
    ELSE IF Head(log) + d > RESTART_COUNT_RESET_S THEN Aged(Tail(log), d)
    ELSE <<Head(log) + d>> \o Aged(Tail(log), d)

\* The supervisor's persisted state left by an earlier run: every interface
\* row of the registry has its unit file.
SInit ==
    /\ sup_pc = "prepare"
    /\ \E persisted \in SUBSET ConnIds :
          /\ registry = [a \in AppIds |-> IF a \in persisted THEN InterfaceRow ELSE NoRow]
          /\ units = {ServiceName(a, "interface") : a \in persisted}
    /\ conns \in [ConnIds -> {NoRow, [known |-> TRUE, use |-> TRUE]}]
    /\ services = [a \in AppIds |-> NoSvc]
    /\ sysd_active = {}
    /\ now = 0
    /\ hc_starts = [a \in AppIds |-> <<>>]
    /\ sup_last = Op("init", "none")
    /\ rm_pending = "none"

\* on_prepare: open the store, construct the license manager.
SupPrepare ==
    /\ UNCHANGED <<evars, lvars, xvars, rm_pending>>
    /\ sup_pc = "prepare"
    /\ sup_pc' = "configure"
    /\ license_mgr' = license_env
    /\ UNCHANGED <<license_env, token_cache, wall, events, cli_log>>
    /\ sup_last' = Op("prepare", "none")
    /\ UNCHANGED <<registry, conns, units, services, sysd_active, now, hc_starts>>

\* on_configure: _ensure_addon_registry.
SupConfigure ==
    /\ UNCHANGED <<evars, lvars, xvars, avars, rm_pending>>
    /\ sup_pc = "configure"
    /\ sup_pc' = "connect"
    /\ registry' = [a \in AppIds |->
                      IF a \in AddonIds /\ registry[a] = NoRow THEN AddonRow ELSE registry[a]]
    /\ sup_last' = Op("configure", "none")
    /\ UNCHANGED <<conns, units, services, sysd_active, now, hc_starts>>

\* on_connect, lines 166-177: the command and connection-event callbacks are
\* registered on the bus and committed.
SupSubscribe ==
    /\ UNCHANGED <<evars, lvars, xvars, avars, rm_pending>>
    /\ sup_pc = "connect"
    /\ sup_pc' = "subscribed"
    /\ sup_last' = Op("subscribe", "none")
    /\ UNCHANGED <<registry, conns, units, services, sysd_active, now, hc_starts>>

\* _load_registry
SupLoadRegistry ==
    /\ UNCHANGED <<evars, lvars, xvars, avars, rm_pending>>
    /\ sup_pc = "subscribed"
    /\ sup_pc' = "loaded"
    /\ services' = [a \in AppIds |->
                      IF registry[a] = NoRow THEN NoSvc
                      ELSE NewService(registry[a].category, registry[a].enabled)]
    /\ hc_starts' = [a \in AppIds |-> <<>>]
    /\ sup_last' = Op("load_registry", "none")
    /\ UNCHANGED <<registry, conns, units, sysd_active, now>>

\* select_conns_enabled(): rows with use = 1; those of a known protocol are synced.
SyncedConns == {c \in ConnIds : conns[c] # NoRow /\ conns[c].use /\ conns[c].known}

\* _sync_conns_initial
SupSyncConnsInitial ==
    /\ UNCHANGED <<evars, lvars, xvars, avars, rm_pending>>
    /\ sup_pc = "loaded"
    /\ sup_pc' = "synced"
    /\ registry' = [a \in AppIds |-> IF a \in SyncedConns THEN InterfaceRow ELSE registry[a]]
    /\ services' = [a \in AppIds |->
                      IF a \in SyncedConns THEN NewService("interface", TRUE) ELSE services[a]]
    /\ units' = units \cup {ServiceName(a, "interface") : a \in SyncedConns}
    /\ hc_starts' = [a \in AppIds |-> IF a \in SyncedConns THEN <<>> ELSE hc_starts[a]]
    /\ sup_last' = Op("sync_conns_initial", "none")
    /\ UNCHANGED <<conns, sysd_active, now>>

\* _start_enabled_services: oks is the set of services whose start succeeds.
SupStartEnabled(oks) ==
    /\ UNCHANGED <<evars, lvars, xvars, avars, rm_pending>>
    /\ sup_pc = "synced"
    /\ sup_pc' = "execute"
    /\ LET enabled == {a \in AppIds : services[a] # NoSvc /\ services[a].enabled}
       IN  /\ oks \subseteq enabled
           /\ units' = units \cup {ServiceName(a, services[a].category) : a \in enabled}
           /\ services' = [a \in AppIds |->
                             IF a \in oks THEN [services[a] EXCEPT !.active = TRUE]
                             ELSE services[a]]
           /\ sysd_active' = sysd_active \cup {ServiceName(a, services[a].category) : a \in oks}
           /\ hc_starts' = [a \in AppIds |->
                              IF a \in oks /\ ~services[a].active THEN <<>> ELSE hc_starts[a]]
    /\ sup_last' = Op("start_enabled", "none")
    /\ UNCHANGED <<registry, conns, now>>

(***************************************************************************)
(* Healthcheck (manage thread)                                             *)
(***************************************************************************)
\* Every enabled record is probed, whatever its active flag.
HcProbed_Mut(rec) == rec # NoSvc /\ rec.enabled

\* "if not state.enabled or not state.active: continue"
HcProbed(rec) == rec # NoSvc /\ rec.enabled /\ rec.active

HcDead(a, rec) == HcProbed(rec) /\ ServiceName(a, rec.category) \notin sysd_active

\* The counter is reset as soon as the window has elapsed, not after it.
HcCount_Mut(rec, t) ==
    IF t - rec.last_restart_ts >= RESTART_COUNT_RESET_S THEN 0 ELSE rec.restart_count

\* "Reset counter if enough time has passed"
HcCount(rec, t) ==
    IF t - rec.last_restart_ts > RESTART_COUNT_RESET_S THEN 0 ELSE rec.restart_count

\* Every dead service is started, whatever its counter.
HcStarts_Mut(a, rec, t) == HcDead(a, rec)

\* The healthcheck issues a start for a: probed, found dead, below the limit.
HcStarts(a, rec, t) == HcDead(a, rec) /\ HcCount(rec, t) < MAX_RESTART_COUNT

\* The record of a after the pass at time t; ok: its start succeeds.
HcRecord(a, rec, t, ok) ==
    IF ~HcDead(a, rec) THEN rec
    ELSE IF ~HcStarts(a, rec, t)
         THEN [rec EXCEPT !.restart_count = HcCount(rec, t), !.active = FALSE]
    ELSE IF ok
         THEN [rec EXCEPT !.restart_count = HcCount(rec, t) + 1, !.last_restart_ts = t]
    ELSE [rec EXCEPT !.restart_count = HcCount(rec, t), !.active = FALSE]

\* History: a service the pass restarts after its counter had reached the
\* limit, if there is one.
HcRenewed(oks) ==
    LET renewed == {a \in oks : services[a].restart_count = MAX_RESTART_COUNT}
    IN  IF renewed = {} THEN "none" ELSE CHOOSE a \in renewed : TRUE

\* _healthcheck: one pass over the service map, under the lock.  Writing and
\* removing unit files is taken to succeed throughout; systemctl may fail.
SupHealthcheck(oks) ==
    /\ UNCHANGED <<evars, lvars, xvars, avars, rm_pending>>
    /\ LET started == {a \in AppIds : HcStarts(a, services[a], now)}
       IN  /\ oks \subseteq started
           /\ services' = [a \in AppIds |-> HcRecord(a, services[a], now, a \in oks)]
           /\ sysd_active' = sysd_active \cup {ServiceName(a, services[a].category) : a \in oks}
           /\ hc_starts' = [a \in AppIds |->
                              IF a \in started THEN Append(hc_starts[a], 0)
                              ELSE hc_starts[a]]
           /\ sup_last' = Op("healthcheck", HcRenewed(oks))
    /\ UNCHANGED <<sup_pc, registry, conns, units, now>>

(***************************************************************************)
(* Bus callbacks, delivered one at a time                                  *)
(***************************************************************************)
\* _on_conn_added
SupConnAdded(x, start_ok) ==
    /\ UNCHANGED <<evars, lvars, xvars, avars, rm_pending>>
    /\ HandlersLive
    /\ rm_pending = "none"
    /\ sup_last' = Op("conn_added", x)
    /\ IF x \notin ConnIds \/ conns[x] = NoRow \/ ~conns[x].known
       THEN UNCHANGED <<registry, units, services, sysd_active, hc_starts>>
       ELSE /\ registry' = [registry EXCEPT ![x] = InterfaceRow]
            /\ units' = units \cup {ServiceName(x, "interface")}
            /\ services' = [services EXCEPT
                              ![x] = [NewService("interface", TRUE) EXCEPT !.active = start_ok]]
            /\ sysd_active' = IF start_ok
                              THEN sysd_active \cup {ServiceName(x, "interface")}
                              ELSE sysd_active
            /\ hc_starts' = [hc_starts EXCEPT ![x] = <<>>]
    /\ UNCHANGED <<sup_pc, conns, now>>

\* _on_conn_removed up to delete_app: look the entry up under the lock, return
\* if there is none; otherwise _deactivate_service, _remove_service_unit,
\* daemon-reload, delete_app.  stop_ok: systemctl stop succeeds.
SupConnRemoved(x, stop_ok) ==
    /\ UNCHANGED <<evars, lvars, xvars, avars>>
    /\ HandlersLive
    /\ rm_pending = "none"
    /\ IF services[x] = NoSvc
       THEN \* "conn_removed but service not found": return
            /\ sup_last' = Op("conn_removed", x)
            /\ UNCHANGED <<registry, units, services, sysd_active, hc_starts, rm_pending>>
       ELSE /\ sysd_active' = IF services[x].active /\ stop_ok
                              THEN sysd_active \ {ServiceName(x, "interface")}
                              ELSE sysd_active
            /\ services' = [services EXCEPT ![x].active = FALSE]
            /\ units' = units \ {ServiceName(x, "interface")}
            /\ registry' = [registry EXCEPT ![x] = NoRow]
            /\ rm_pending' = x
            /\ sup_last' = Op("conn_removed_delete_app", x)
            /\ UNCHANGED hc_starts
    /\ UNCHANGED <<sup_pc, conns, now>>

\* _on_conn_removed, the last step: pop the map entry under the lock, return.
SupConnRemovedPop ==
    /\ UNCHANGED <<evars, lvars, xvars, avars>>
    /\ rm_pending # "none"
    /\ services' = [services EXCEPT ![rm_pending] = NoSvc]
    /\ hc_starts' = [hc_starts EXCEPT ![rm_pending] = <<>>]
    /\ rm_pending' = "none"
    /\ sup_last' = Op("conn_removed", rm_pending)
    /\ UNCHANGED <<sup_pc, registry, conns, units, sysd_active, now>>

\* _on_conn_removed at a finer grain, for a record found active: the lookup
\* and _deactivate_service up to and including systemctl stop.  The lock is
\* not held during the stop, and state.active is still true when it returns.
SupConnRemovedStop(x, stop_ok) ==
    /\ UNCHANGED <<evars, lvars, xvars, avars>>
    /\ sup_pc = "execute"
    /\ rm_pending = "none"
    /\ services[x] # NoSvc /\ services[x].active
    /\ sysd_active' = IF stop_ok THEN sysd_active \ {ServiceName(x, "interface")}
                       ELSE sysd_active
    /\ rm_pending' = x
    /\ sup_last' = Op("conn_removed_stop", x)
    /\ UNCHANGED <<sup_pc, registry, conns, units, services, now, hc_starts>>

\* _on_conn_removed after the stop: state.active = False, _remove_service_unit,
\* daemon-reload, delete_app.
SupConnRemovedMark ==
    /\ UNCHANGED <<evars, lvars, xvars, avars>>
    /\ rm_pending # "none"
    /\ ServiceName(rm_pending, "interface") \in units
    /\ services' = [services EXCEPT ![rm_pending].active = FALSE]
    /\ units' = units \ {ServiceName(rm_pending, "interface")}
    /\ registry' = [registry EXCEPT ![rm_pending] = NoRow]
    /\ sup_last' = Op("conn_removed_delete_app", rm_pending)
    /\ UNCHANGED <<sup_pc, conns, sysd_active, now, hc_starts, rm_pending>>

\* _restart_managed_service
SupRestart(x, stop_ok, start_ok) ==
    /\ UNCHANGED <<evars, lvars, xvars, avars, rm_pending>>
    /\ HandlersLive
    /\ rm_pending = "none"
    /\ sup_last' = Op("restart", x)
    /\ IF services[x] = NoSvc
       THEN UNCHANGED <<services, sysd_active, hc_starts>>
       ELSE LET name == ServiceName(x, services[x].category)
                stopped == IF stop_ok THEN sysd_active \ {name} ELSE sysd_active
            IN  /\ sysd_active' = IF start_ok THEN stopped \cup {name} ELSE stopped
                /\ services' = IF start_ok
                               THEN [services EXCEPT ![x].active = TRUE]
                               ELSE services
                /\ hc_starts' = IF start_ok /\ ~services[x].active
                                THEN [hc_starts EXCEPT ![x] = <<>>]
                                ELSE hc_starts
    /\ UNCHANGED <<sup_pc, registry, conns, units, now>>

(***************************************************************************)
(* Environment                                                             *)
(***************************************************************************)
\* A worker process dies.
ServiceDies(name) ==
    /\ UNCHANGED <<evars, lvars, xvars, avars, rm_pending>>
    /\ name \in sysd_active
    /\ sysd_active' = sysd_active \ {name}
    /\ UNCHANGED <<sup_pc, registry, conns, units, services, now, hc_starts, sup_last>>

\* Monotonic time passes.
Tick ==
    /\ UNCHANGED <<evars, lvars, xvars, avars, rm_pending>>
    /\ now < MaxNow
    /\ now' = now + ClockStep
    /\ hc_starts' = [a \in AppIds |-> Aged(hc_starts[a], ClockStep)]
    /\ UNCHANGED <<sup_pc, registry, conns, units, services, sysd_active, sup_last>>

\* The importer inserts or deletes a connection row.
ConnsUpdate(c, row) ==
    /\ UNCHANGED <<evars, lvars, xvars, avars, rm_pending>>
    /\ conns[c] # row
    /\ conns' = [conns EXCEPT ![c] = row]
    /\ UNCHANGED <<sup_pc, registry, units, services, sysd_active, now, hc_starts, sup_last>>

SNext ==
    \/ SupPrepare
    \/ SupConfigure
    \/ SupSubscribe
    \/ SupLoadRegistry
    \/ SupSyncConnsInitial
    \/ \E oks \in SUBSET AppIds : SupStartEnabled(oks)
    \/ \E oks \in SUBSET AppIds : SupHealthcheck(oks)
    \/ \E x \in ConnIds, ok \in BOOLEAN : SupConnAdded(x, ok)
    \/ \E x \in ConnIds, ok \in BOOLEAN : SupConnRemoved(x, ok)
    \/ SupConnRemovedPop
    \/ \E x \in ConnIds, ok1 \in BOOLEAN, ok2 \in BOOLEAN : SupRestart(x, ok1, ok2)
    \/ \E name \in Categories \X AppIds : ServiceDies(name)
    \/ Tick
    \/ \E c \in ConnIds, row \in SupConnRows \cup {NoRow} : ConnsUpdate(c, row)

(***************************************************************************)
(* Part 3 - addon entitlements                                             *)
(***************************************************************************)
\* Bounds of the epoch clock and of the exp claim of a token.
MaxWall == 3

MaxExp == 2

\* A token as the black-box verifier sees it: whether its signature and
\* required claims verify, and its claims app_id and exp.
Tokens == [sig_ok : BOOLEAN, app_id : AppIds, exp : 1..MaxExp]

\* LicenseManager.validate_token: the claims, or None when decoding fails
\* (bad signature, missing claim, exp not after the current time).
ValidateToken(tok) == tok.sig_ok /\ tok.exp > wall

Event(name, data) == [event |-> name, data |-> data]

\* The app_id of the claims is not compared with the requested app-id.
ActivateError_Mut(a, tok) ==
    IF ~license_mgr THEN "license manager unavailable"
    ELSE IF ~ValidateToken(tok) THEN "invalid or expired token"
    ELSE IF a \notin AddonIds THEN "unknown addon"
    ELSE "ok"

\* activate_addon, the checks before the first write: the error of the
\* returned payload, "ok" when every check passes.
ActivateError(a, tok) ==
    IF ~license_mgr THEN "license manager unavailable"
    ELSE IF ~ValidateToken(tok) THEN "invalid or expired token"
    ELSE IF tok.app_id # a THEN "token app mismatch"
    ELSE IF a \notin AddonIds THEN "unknown addon"
    ELSE "ok"

\* The entitlement columns are written without the expiry.
UpdateAppLicense_Mut(reg, a, token, expires_at, enabled) ==
    IF reg[a] = NoRow THEN reg
    ELSE [reg EXCEPT ![a].license_token = token, ![a].enabled = enabled]

\* EdgeDB.update_app_license: UPDATE ... WHERE app_id = ?
UpdateAppLicense(reg, a, token, expires_at, enabled) ==
    IF reg[a] = NoRow THEN reg
    ELSE [reg EXCEPT ![a].license_token = token,
                     ![a].license_expires_at = expires_at,
                     ![a].enabled = enabled]

\* The activate command: activate_addon, then the activate_result event.
SupActivate(a, tok, start_ok) ==
    /\ UNCHANGED <<evars, lvars, xvars>>
    /\ HandlersLive
    /\ rm_pending = "none"
    /\ sup_last' = Op("activate", a)
    /\ LET err == ActivateError(a, tok)
       IN  IF err # "ok"
           THEN /\ events' = <<Event("activate_result", err)>>
                /\ cli_log' = {}
                /\ UNCHANGED <<registry, units, services, sysd_active, hc_starts, token_cache>>
           ELSE /\ token_cache' = [token_cache EXCEPT ![a] = tok]
                /\ registry' = UpdateAppLicense(registry, a, tok, tok.exp, TRUE)
                /\ services' = [services EXCEPT
                                  ![a] = [NewService("addon", TRUE) EXCEPT !.active = start_ok]]
                /\ units' = units \cup {ServiceName(a, "addon")}
                /\ sysd_active' = IF start_ok
                                  THEN sysd_active \cup {ServiceName(a, "addon")}
                                  ELSE sysd_active
                /\ hc_starts' = [hc_starts EXCEPT ![a] = <<>>]
                /\ cli_log' = {<<"daemon-reload", a>>, <<"start", a>>}
                /\ events' = <<Event("addon_activated", a), Event("activate_result", "ok")>>
    /\ UNCHANGED <<sup_pc, conns, now, rm_pending, license_env, license_mgr, wall>>

\* _deactivate_service: stop is invoked only for a record that is active.
StopInvoked(a) == services[a] # NoSvc /\ services[a].active

\* deactivate_addon: the record of a after the call.
DeactivatedService(rec) ==
    IF rec = NoSvc THEN NoSvc ELSE [rec EXCEPT !.enabled = FALSE, !.active = FALSE]

\* One addon_deactivated event per deactivated addon.
RECURSIVE DeactivatedEvents(_)
DeactivatedEvents(D) ==
    IF D = {} THEN <<>>
    ELSE LET a == CHOOSE b \in D : TRUE
         IN  <<Event("addon_deactivated", a)>> \o DeactivatedEvents(D \ {a})

\* deactivate_addon for every addon of D; stop_oks: those whose stop succeeds.
DeactivateAddons(D, stop_oks) ==
    /\ registry' = [a \in AppIds |->
                      IF a \in D THEN UpdateAppLicense(registry, a, NoToken, Null, FALSE)[a]
                      ELSE registry[a]]
    /\ services' = [a \in AppIds |->
                      IF a \in D THEN DeactivatedService(services[a]) ELSE services[a]]
    /\ units' = units \ {ServiceName(a, "addon") : a \in D}
    /\ sysd_active' = sysd_active \
                        {ServiceName(a, "addon") : a \in {b \in D \cap stop_oks : StopInvoked(b)}}
    /\ token_cache' = [a \in AddonIds |->
                         IF a \in D /\ license_mgr THEN NoToken ELSE token_cache[a]]
    /\ cli_log' = {<<"stop", a>> : a \in {b \in D : StopInvoked(b)}}
                    \cup {<<"daemon-reload", a>> : a \in D}

\* The deactivate command: deactivate_addon, then the deactivate_result event.
SupDeactivate(a, stop_ok) ==
    /\ UNCHANGED <<evars, lvars, xvars>>
    /\ HandlersLive
    /\ rm_pending = "none"
    /\ sup_last' = Op("deactivate", a)
    /\ DeactivateAddons({a}, IF stop_ok THEN {a} ELSE {})
    /\ events' = DeactivatedEvents({a}) \o <<Event("deactivate_result", "ok")>>
    /\ UNCHANGED <<sup_pc, conns, now, hc_starts, rm_pending, license_env, license_mgr, wall>>

\* _check_license_expiry: enabled addon rows whose expires-at is set and passed.
Expired ==
    IF ~license_mgr THEN {}
    ELSE {a \in AppIds : /\ registry[a] # NoRow
                         /\ registry[a].category = "addon"
                         /\ registry[a].enabled
                         /\ registry[a].license_expires_at \notin {Null, 0}
                         /\ registry[a].license_expires_at <= wall}

\* The entitlement sweep of on_execute.
SupSweep(stop_oks) ==
    /\ UNCHANGED <<evars, lvars, xvars>>
    /\ sup_pc = "execute"
    /\ stop_oks \subseteq Expired
    /\ sup_last' = Op("sweep", "none")
    /\ DeactivateAddons(Expired, stop_oks)
    /\ events' = DeactivatedEvents(Expired)
    /\ UNCHANGED <<sup_pc, conns, now, hc_starts, rm_pending, license_env, license_mgr, wall>>

\* Epoch time passes.
WallTick ==
    /\ UNCHANGED <<evars, svars, lvars, xvars>>
    /\ wall < MaxWall
    /\ wall' = wall + 1
    /\ UNCHANGED <<license_env, license_mgr, token_cache, events, cli_log>>

ANext ==
    \/ SupPrepare
    \/ SupConfigure
    \/ SupSubscribe
    \/ SupLoadRegistry
    \/ SupSyncConnsInitial
    \/ \E oks \in SUBSET AppIds : SupStartEnabled(oks)
    \/ \E a \in AppIds, tok \in Tokens, ok \in BOOLEAN : SupActivate(a, tok, ok)
    \/ \E a \in AppIds, ok \in BOOLEAN : SupDeactivate(a, ok)
    \/ \E oks \in SUBSET AddonIds : SupSweep(oks)
    \/ \E name \in Categories \X AppIds : ServiceDies(name)
    \/ WallTick

(***************************************************************************)
(* Part 4 - the service-map mutex                                          *)
(*                                                                         *)
(* Every supervisor code path that touches the service map, as the         *)
(* sequence of its steps on the mutex, the map and its records, and the    *)
(* service-manager CLI.  Branches are laid out one after the other.        *)
(***************************************************************************)
Threads == {"driver", "manage", "bus"}

St(k, v) == [k |-> k, v |-> v]

Acquire == St("acquire", "lock")

Release == St("release", "lock")

\* _deactivate_service
DeactivateServicePath ==
    <<Acquire, St("read", "get"), Release, St("cli", "stop"), St("write", "active")>>

\* _load_registry
LoadRegistryPath ==
    <<Acquire, St("write", "clear"), St("write", "insert"), Release>>

\* _sync_conns_initial
SyncConnsPath ==
    <<Acquire, St("write", "insert"), Release, St("cli", "daemon-reload")>>

\* _start_enabled_services
StartEnabledPath ==
    <<Acquire, St("read", "values"), Release, St("cli", "daemon-reload"),
      Acquire, St("read", "values"), St("cli", "start"), St("write", "active"), Release>>

\* _stop_all_services
StopAllPath ==
    <<Acquire, St("read", "values"), St("cli", "stop"), St("write", "active"), Release>>

\* _healthcheck
HealthcheckPath ==
    <<Acquire, St("read", "values"), St("cli", "is-active"), St("write", "restart_count"),
      St("write", "active"), St("cli", "start"), St("write", "restart_count"),
      St("write", "last_restart_ts"), St("write", "active"), Release>>

\* _get_service_list (_publish_status)
ServiceListPath == <<Acquire, St("read", "items"), Release>>

\* _on_conn_added
ConnAddedPath ==
    <<Acquire, St("write", "insert"), Release, St("cli", "daemon-reload"),
      St("cli", "start"), St("write", "active")>>

\* _on_conn_removed
ConnRemovedPath ==
    <<Acquire, St("read", "get"), Release>> \o DeactivateServicePath \o
    <<St("cli", "daemon-reload"), Acquire, St("write", "pop"), Release>>

\* activate_addon
ActivatePath ==
    <<Acquire, St("write", "insert"), Release, St("cli", "daemon-reload"),
      St("cli", "start"), St("write", "active")>>

\* deactivate_addon
DeactivatePath ==
    DeactivateServicePath \o
    <<St("cli", "daemon-reload"), Acquire, St("read", "get"), St("write", "enabled"),
      St("write", "active"), Release>>

\* _restart_managed_service
RestartPath ==
    <<Acquire, St("read", "get"), Release, St("cli", "stop"), St("cli", "start"),
      St("write", "active")>>

Paths ==
    [load_registry |-> LoadRegistryPath, sync_conns |-> SyncConnsPath,
     start_enabled |-> StartEnabledPath, stop_all |-> StopAllPath,
     healthcheck |-> HealthcheckPath, service_list |-> ServiceListPath,
     conn_added |-> ConnAddedPath, conn_removed |-> ConnRemovedPath,
     activate |-> ActivatePath, deactivate |-> DeactivatePath,
     restart |-> RestartPath]

\* on_connect / on_execute / on_disconnect run on the FSM driver, on_manage
\* on the manage thread, the tag callbacks on a bus thread.
ThreadPaths ==
    [driver |-> {"load_registry", "sync_conns", "start_enabled", "deactivate", "stop_all"},
     manage |-> {"healthcheck", "service_list"},
     bus |-> {"conn_added", "conn_removed", "activate", "deactivate", "restart"}]

NoStep == [thread |-> "none", path |-> "none", k |-> "none", v |-> "none", held |-> FALSE]

LInit ==
    /\ lk_path = [t \in Threads |-> "idle"]
    /\ lk_idx = [t \in Threads |-> 1]
    /\ lock_holder = "free"
    /\ lk_last = NoStep

\* Thread t enters code path p.
LkBegin(t, p) ==
    /\ UNCHANGED <<evars, svars, avars, xvars>>
    /\ lk_path[t] = "idle"
    /\ p \in ThreadPaths[t]
    /\ lk_path' = [lk_path EXCEPT ![t] = p]
    /\ lk_idx' = [lk_idx EXCEPT ![t] = 1]
    /\ UNCHANGED <<lock_holder, lk_last>>

\* Thread t takes the next step of its path; threading.Lock blocks a thread
\* that acquires it while it is held.
LkStep(t) ==
    /\ UNCHANGED <<evars, svars, avars, xvars>>
    /\ lk_path[t] # "idle"
    /\ LET path == Paths[lk_path[t]]
           step == path[lk_idx[t]]
       IN  /\ step.k = "acquire" => lock_holder = "free"
           /\ lock_holder' = IF step.k = "acquire" THEN t
                             ELSE IF step.k = "release" THEN "free"
                             ELSE lock_holder
           /\ lk_last' = [thread |-> t, path |-> lk_path[t], k |-> step.k, v |-> step.v,
                          held |-> lock_holder = t]
           /\ IF lk_idx[t] = Len(path)
              THEN /\ lk_path' = [lk_path EXCEPT ![t] = "idle"]
                   /\ lk_idx' = [lk_idx EXCEPT ![t] = 1]
              ELSE /\ lk_idx' = [lk_idx EXCEPT ![t] = lk_idx[t] + 1]
                   /\ UNCHANGED lk_path

LNext ==
    \/ \E t \in Threads, p \in DOMAIN Paths : LkBegin(t, p)
    \/ \E t \in Threads : LkStep(t)

\* The entitlement side at rest: a working license manager, an empty cache.
AIdle ==
    /\ license_env = TRUE
    /\ license_mgr = FALSE
    /\ token_cache = [a \in AddonIds |-> NoToken]
    /\ wall = 0
    /\ events = <<>>
    /\ cli_log = {}

\* The other machine at rest.
EIdle == EInit /\ db_conn = [info |-> "info_a", other |-> "other_a"]

SIdle ==
    /\ sup_pc = "prepare"
    /\ registry = [a \in AppIds |-> NoRow]
    /\ units = {}
    /\ conns = [c \in ConnIds |-> NoRow]
    /\ services = [a \in AppIds |-> NoSvc]
    /\ sysd_active = {}
    /\ now = 0
    /\ hc_starts = [a \in AppIds |-> <<>>]
    /\ sup_last = Op("init", "none")
    /\ rm_pending = "none"

(***************************************************************************)
(* Part 5 - pure functions                                                 *)
(***************************************************************************)
\* _CONN_INFO_KEYS, in the order the loop visits them.
CONN_INFO_KEYS_Mut == <<"host", "port", "timeout">>

CONN_INFO_KEYS == <<"host", "port", "timeout", "retry">>

\* Columns of a conns row outside the connection-level tuple.
OtherKeys == {"properties", "updated_at"}

ColVals == {"v1", "v2"}

\* dict(row): every column present.
ConnDicts == [{"host", "port", "timeout", "retry"} \cup OtherKeys -> ColVals]

\* {} : the snapshot when no config had been loaded yet.
EmptyDict == [k \in {} |-> "v1"]

\* dict.get(key): None for a missing key.
Get(d, key) == IF key \in DOMAIN d THEN d[key] ELSE "None"

\* The loop of _is_conn_info_changed from position i: return True at the first
\* key whose values differ, False when the keys are exhausted.
RECURSIVE ConnInfoChangedFrom(_, _, _)
ConnInfoChangedFrom(prev, curr, i) ==
    IF i > Len(CONN_INFO_KEYS) THEN FALSE
    ELSE IF Get(prev, CONN_INFO_KEYS[i]) # Get(curr, CONN_INFO_KEYS[i]) THEN TRUE
    ELSE ConnInfoChangedFrom(prev, curr, i + 1)

FIdle ==
    /\ cic_prev = EmptyDict
    /\ cic_curr = EmptyDict
    /\ cic_pc = "in"
    /\ cic_out = FALSE

FInit ==
    /\ cic_prev \in ConnDicts \cup {EmptyDict}
    /\ cic_curr \in ConnDicts
    /\ cic_pc = "in"
    /\ cic_out = FALSE

\* One call of InterfaceApp._is_conn_info_changed(prev, curr).
CallIsConnInfoChanged ==
    /\ cic_pc = "in"
    /\ cic_pc' = "out"
    /\ cic_out' = ConnInfoChangedFrom(cic_prev, cic_curr, 1)
    /\ UNCHANGED <<cic_prev, cic_curr, evars, svars, avars, lvars, cvars, hvars, mvars>>

FNext == CallIsConnInfoChanged

(***************************************************************************)
(* Part 6 - the command sequence of the supervisor's on_connect            *)
(***************************************************************************)
CIdle ==
    /\ cn_pc = "idle"
    /\ cn_conns = {}
    /\ cn_enabled = {}
    /\ cn_todo = {}
    /\ cn_need_reload = FALSE
    /\ cn_log = <<>>

HIdle == retry_waited = FALSE /\ db_handle = "assumed"

\* StageStatistics.elapsed_time = 0.0, an empty meter.
MInit ==
    /\ mt_elapsed = 0
    /\ mt_samples = <<>>
    /\ mt_last = [ok |-> FALSE, took |-> 0, added |-> -1]

XIdle == FIdle /\ CIdle /\ HIdle /\ MInit

\* on_connect after _load_registry: the enabled registry rows are in the map,
\* _sync_conns_initial is about to run over the enabled conns.
CInit ==
    /\ cn_pc = "sync"
    /\ cn_conns \in SUBSET {"c1", "c2"}
    /\ cn_enabled \in SUBSET AppIds
    /\ cn_todo = cn_conns
    /\ cn_need_reload = FALSE
    /\ cn_log = <<>>

\* _sync_conns_initial, one row: map entry inserted enabled, unit written.
CnSyncRow(c, write_ok) ==
    /\ cn_pc = "sync" /\ c \in cn_todo
    /\ cn_todo' = cn_todo \ {c}
    /\ cn_enabled' = cn_enabled \cup {c}
    /\ cn_log' = IF write_ok THEN Append(cn_log, <<"write", c>>) ELSE cn_log
    /\ cn_need_reload' = (cn_need_reload \/ write_ok)
    /\ UNCHANGED <<cn_pc, cn_conns, evars, svars, avars, lvars, fvars, hvars, mvars>>

\* _sync_conns_initial, after the loop: daemon-reload if a unit was written;
\* then _start_enabled_services begins with need_reload = False.
CnSyncEnd ==
    /\ cn_pc = "sync" /\ cn_todo = {}
    /\ cn_log' = IF cn_need_reload THEN Append(cn_log, <<"daemon-reload", "">>) ELSE cn_log
    /\ cn_pc' = "write"
    /\ cn_todo' = cn_enabled
    /\ cn_need_reload' = FALSE
    /\ UNCHANGED <<cn_conns, cn_enabled, evars, svars, avars, lvars, fvars, hvars, mvars>>

\* _start_enabled_services, first loop, one enabled record: unit written.
CnStartWrite(a, write_ok) ==
    /\ cn_pc = "write" /\ a \in cn_todo
    /\ cn_todo' = cn_todo \ {a}
    /\ cn_log' = IF write_ok THEN Append(cn_log, <<"write", a>>) ELSE cn_log
    /\ cn_need_reload' = (cn_need_reload \/ write_ok)
    /\ UNCHANGED <<cn_pc, cn_conns, cn_enabled, evars, svars, avars, lvars, fvars, hvars, mvars>>

\* _start_enabled_services between the loops: daemon-reload if need_reload.
CnStartReload ==
    /\ cn_pc = "write" /\ cn_todo = {}
    /\ cn_log' = IF cn_need_reload THEN Append(cn_log, <<"daemon-reload", "">>) ELSE cn_log
    /\ cn_pc' = "start"
    /\ cn_todo' = cn_enabled
    /\ UNCHANGED <<cn_conns, cn_enabled, cn_need_reload, evars, svars, avars, lvars, fvars, hvars, mvars>>

\* _start_enabled_services, second loop, one enabled record: start invoked.
CnStart(a) ==
    /\ cn_pc = "start" /\ a \in cn_todo
    /\ cn_todo' = cn_todo \ {a}
    /\ cn_log' = Append(cn_log, <<"start", a>>)
    /\ cn_pc' = IF cn_todo = {a} THEN "done" ELSE "start"
    /\ UNCHANGED <<cn_conns, cn_enabled, cn_need_reload, evars, svars, avars, lvars, fvars, hvars, mvars>>

\* _start_enabled_services with nothing enabled.
CnStartNone ==
    /\ cn_pc = "start" /\ cn_todo = {}
    /\ cn_pc' = "done"
    /\ UNCHANGED <<cn_conns, cn_enabled, cn_todo, cn_need_reload, cn_log, evars, svars, avars,
                   lvars, fvars, hvars, mvars>>

CNext ==
    \/ \E c \in {"c1", "c2"}, ok \in BOOLEAN : CnSyncRow(c, ok)
    \/ CnSyncEnd
    \/ \E a \in AppIds \cup {"c2"}, ok \in BOOLEAN : CnStartWrite(a, ok)
    \/ CnStartReload
    \/ \E a \in AppIds \cup {"c2"} : CnStart(a)
    \/ CnStartNone

InitConnect == EIdle /\ SIdle /\ AIdle /\ LInit /\ FIdle /\ CInit /\ HIdle /\ MInit

SpecConnect == InitConnect /\ [][CNext]_vars

(***************************************************************************)
(* Part 7 - the execute timing meter                                       *)
(***************************************************************************)
MaxSamples == 4

\* Durations, in clock units, of one on_execute call and of one timer wait.
Durations == {1, 2}

Waits == {0, 1}

\* One iteration of execute_handler's loop as the meter sees it.  took: the
\* time on_execute runs; wait: the time spent in execute_timer.wait().  The
\* body of "with _measure_time(execute)" runs first; elapsed_time is assigned
\* when the block is left normally, and not at all when it is left by an
\* exception.
MeterTick(ok, took, wait) ==
    /\ Len(mt_samples) < MaxSamples
    /\ IF ok
       THEN /\ mt_samples' = Append(mt_samples, mt_elapsed)
            /\ mt_elapsed' = took + wait
            /\ mt_last' = [ok |-> TRUE, took |-> took, added |-> mt_elapsed]
       ELSE /\ mt_last' = [ok |-> FALSE, took |-> took, added |-> -1]
            /\ UNCHANGED <<mt_elapsed, mt_samples>>
    /\ UNCHANGED <<evars, svars, avars, lvars, fvars, cvars, hvars>>

MNext == \E ok \in BOOLEAN, took \in Durations, wait \in Waits : MeterTick(ok, took, wait)

InitMeter == EIdle /\ SIdle /\ AIdle /\ LInit /\ XIdle

SpecMeter == InitMeter /\ [][MNext]_vars

InitFun == EIdle /\ SIdle /\ AIdle /\ LInit /\ FInit /\ CIdle /\ HIdle /\ MInit

SpecFun == InitFun /\ [][FNext]_vars

Init == EInit /\ SIdle /\ AIdle /\ LInit /\ XIdle

Next == ENext

Spec == Init /\ [][Next]_vars

\* The engine under scheduling: the main thread and the FSM driver are OS
\* threads that keep running, so the main thread's exit path and the second
\* half of an in-flight disconnect_handler are taken once they stay enabled.
\* The conns row stays as the importer last wrote it (no DbUpdate).
NextLive ==
    \/ \E o \in {"ok", "bus_raise", "hook_raise"} : PrepareHandler(o)
    \/ \E ok \in BOOLEAN : ConfigureHandler(ok)
    \/ \E o \in {"ok", "bus_raise", "hook_raise"} : ConnectHandler(o)
    \/ \E ok \in BOOLEAN : ExecuteTick(ok)
    \/ \E ok \in BOOLEAN : RecoverHandler(ok)
    \/ \E ok \in BOOLEAN : DisconnectHook(ok)
    \/ \E ok \in BOOLEAN : DisconnectFinish(ok)
    \/ Sigterm
    \/ \E ok \in BOOLEAN : MainStop(ok)
    \/ \E ok \in BOOLEAN : DoManage(ok)
    \/ RequestReconfigure
    \/ ConfigReload

SpecLive ==
    /\ Init
    /\ [][NextLive]_vars
    /\ WF_vars(\E ok \in BOOLEAN : MainStop(ok))
    /\ WF_vars(\E ok \in BOOLEAN : DisconnectFinish(ok))

\* The engine with the worker's store handle tracked: none before on_prepare.
InitStore ==
    /\ EInit /\ SIdle /\ AIdle /\ LInit /\ FIdle /\ CIdle /\ MInit
    /\ retry_waited = FALSE
    /\ db_handle = "none"

SpecStore == InitStore /\ [][Next]_vars

\* The supervisor with conn_removed interleaved with the healthcheck at the
\* grain of the handler's stop.
NextRace ==
    \/ SupPrepare
    \/ SupConfigure
    \/ SupSubscribe
    \/ SupLoadRegistry
    \/ SupSyncConnsInitial
    \/ \E oks \in SUBSET AppIds : SupStartEnabled(oks)
    \/ \E oks \in SUBSET AppIds : SupHealthcheck(oks)
    \/ \E x \in ConnIds, ok \in BOOLEAN : SupConnRemovedStop(x, ok)
    \/ SupConnRemovedMark
    \/ (ServiceName(rm_pending, "interface") \notin units /\ SupConnRemovedPop)
    \/ \E name \in Categories \X AppIds : ServiceDies(name)
    \/ Tick

InitSup == EIdle /\ SInit /\ AIdle /\ LInit /\ XIdle

SpecSup == InitSup /\ [][SNext]_vars

SpecRace == InitSup /\ [][NextRace]_vars

\* The license manager may be unavailable.
AInit ==
    /\ license_env \in BOOLEAN
    /\ license_mgr = FALSE
    /\ token_cache = [a \in AddonIds |-> NoToken]
    /\ wall = 0
    /\ events = <<>>
    /\ cli_log = {}

InitAddon == EIdle /\ SIdle /\ AInit /\ LInit /\ XIdle

SpecAddon == InitAddon /\ [][ANext]_vars

\* The addon operations over a supervisor whose store holds connections.
InitCross == EIdle /\ SInit /\ AInit /\ LInit /\ XIdle

SpecCross == InitCross /\ [][ANext]_vars

InitLock == EIdle /\ SIdle /\ AIdle /\ LInit /\ XIdle

SpecLock == InitLock /\ [][LNext]_vars

(***************************************************************************)
(* Properties of the lifecycle engine                                      *)
(***************************************************************************)
HandlerOps == {"prepare_ok", "prepare_fail", "configure_ok", "configure_fail",
               "connect_ok", "connect_fail", "execute_ok", "execute_fail",
               "recover_ok", "recover_fail", "disconnect_hook_ok",
               "disconnect_hook_fail", "disconnect_finish"}

\* C1: the relation installed in the FSM is the canonical one, including the
\* edge EXECUTE -> CONFIGURE, and it never changes after construction.
C1_AllowedIsCanonical ==
    /\ fsm_allowed = CanonicalAllowed
    /\ "CONFIGURE" \in fsm_allowed["EXECUTE"]

C3_SuccessClearsCount ==
    [][ /\ (last_op' = "execute_ok" => exception_count' = 0)
        /\ (last_op' # "execute_ok" => exception_count' >= exception_count) ]_vars

\* C4: once request_reconfigure() was called in EXECUTE, the next EXECUTE
\* iteration consumes the event and transitions to CONFIGURE, and EXECUTE ->
\* CONFIGURE happens only when the event was set.
C4_ReconfigureOneShot ==
    [][ /\ (fsm_state = "EXECUTE" /\ reconfigure_event /\ last_op' = "execute_ok"
              => fsm_state' = "CONFIGURE" /\ ~reconfigure_event')
        /\ (fsm_state = "EXECUTE" /\ fsm_state' = "CONFIGURE" => reconfigure_event) ]_vars

\* C5: a config_reload with an unchanged connection-level tuple, received in
\* EXECUTE, makes the next EXECUTE iteration go to CONFIGURE, and CONFIGURE
\* entered with a live bus session goes on to CONNECT without stopping the
\* FSM or the process.
C5_HotReloadVisitsConfigure ==
    [][ /\ (reload_pending /\ last_op' = "execute_ok"
              => fsm_state' = "CONFIGURE" /\ ProcessAlive')
        /\ (reload_pending /\ fsm_state = "CONFIGURE" /\ last_op' = "configure_fail"
              => databus # "running") ]_vars

\* C6: after a failure of PREPARE or CONFIGURE the FSM is stopped, no other
\* stage handler runs, and the process ends with exit status 1.
C6_FatalExitsWithOne ==
    exit_thread = "driver" =>
        /\ ~fsm_running
        /\ fsm_state \in {"PREPARE", "CONFIGURE"}
        /\ last_op \notin (HandlerOps \ {"prepare_fail", "configure_fail"})
        /\ (~ProcessAlive => exit_status = 1)

\* C7 as stated: every done flag flips to true at most once per cycle, and
\* connect.done / execute.done are already false once on_disconnect has run.
C7_ResetAtStartOfDisconnect ==
    /\ \A s \in Stages : done_sets[s] <= 1
    /\ (fsm_state = "DISCONNECT" /\ hpc = "hooked"
          => ~done["connect"] /\ ~done["execute"])

\* C7 amended: per cycle (between two resets in DISCONNECT) every done flag
\* flips to true at most once, except recover.done, which flips at most
\* twice (before and after the cycle's first successful EXECUTE iteration);
\* connect.done and execute.done are cleared by the last step of the
\* DISCONNECT handler, after on_disconnect and the bus teardown, together
\* with the transition to CONNECT, and by nothing else.
C7_ResetAtEndOfDisconnect ==
    /\ [](\A s \in Stages \ {"recover"} : done_sets[s] <= 1)
    /\ [](done_sets["recover"] <= 2)
    /\ [](last_op = "disconnect_finish" => ~done["connect"] /\ ~done["execute"])
    /\ [][ (done["connect"] /\ ~done'["connect"]) \/ (done["execute"] /\ ~done'["execute"])
             => /\ fsm_state = "DISCONNECT" /\ hpc = "hooked"
                /\ last_op' = "disconnect_finish"
                /\ fsm_state' = "CONNECT" ]_vars

C7_Witness ==
    /\ fsm_state = "DISCONNECT" /\ hpc = "hooked"
    /\ done["connect"] /\ done["execute"]
    /\ done_sets["recover"] = 2

(***************************************************************************)
(* Supervisor claims                                                       *)
(***************************************************************************)
HealthcheckRestarts(a) == \E oks \in SUBSET AppIds : a \in oks /\ SupHealthcheck(oks)

C8_CountBounded ==
    \A a \in AppIds : services[a] # NoSvc => services[a].restart_count <= MAX_RESTART_COUNT

C8_CountStep ==
    \A a \in AppIds :
        /\ (services[a] = NoSvc /\ services'[a] # NoSvc) => services'[a].restart_count = 0
        /\ (services[a] # NoSvc /\ services'[a] # NoSvc) =>
              /\ services'[a].restart_count > services[a].restart_count =>
                    /\ HealthcheckRestarts(a)
                    /\ services'[a].restart_count = services[a].restart_count + 1
              /\ (services[a].restart_count = MAX_RESTART_COUNT /\ HealthcheckRestarts(a)) =>
                    /\ now - services[a].last_restart_ts > RESTART_COUNT_RESET_S
                    /\ services'[a].restart_count = 1

\* C8: for every service restart_count never exceeds 5; it grows only by one,
\* and only in a healthcheck pass whose start of that service succeeds; a
\* service whose count stands at 5 is restarted by a healthcheck only when
\* more than 300 s have passed since its last restart, and the count then
\* restarts from 0 (it reads 1 after that restart).
C8_RestartCountThrottled == []C8_CountBounded /\ [][C8_CountStep]_vars

\* A sixth consecutive restart: the healthcheck has just restarted c1, whose
\* count had stood at the limit, after the quiet interval.
C8_Witness ==
    /\ sup_last = Op("healthcheck", "c1")
    /\ services["c1"] # NoSvc
    /\ services["c1"].restart_count = 1
    /\ services["c1"].last_restart_ts = now
    /\ now > RESTART_COUNT_RESET_S

C9_WindowBounded == \A a \in AppIds : Len(hc_starts[a]) <= MAX_RESTART_COUNT

C9_HealthcheckStep ==
    (\E oks \in SUBSET AppIds : SupHealthcheck(oks)) =>
        \A a \in AppIds :
            /\ (HcDead(a, services[a]) /\ Len(hc_starts[a]) = MAX_RESTART_COUNT) =>
                  /\ ~services'[a].active
                  /\ hc_starts'[a] = hc_starts[a]
                  /\ ServiceName(a, services[a].category) \notin sysd_active'
            /\ (services[a] # NoSvc /\ ~services[a].active) =>
                  /\ ~services'[a].active
                  /\ hc_starts'[a] = hc_starts[a]

\* C9: healthchecks issue at most 5 starts for one service within any 300 s
\* of monotonic time; a healthcheck that finds the service dead after those 5
\* starts sets active to false and issues no start; and no healthcheck sets
\* the flag of an inactive service back to true or starts it.
C9_AtMostFiveStartsPerWindow == []C9_WindowBounded /\ [][C9_HealthcheckStep]_vars

\* The healthcheck has given up on c1 after 5 starts within the window.
C9_Witness ==
    /\ sup_last.op = "healthcheck"
    /\ Len(hc_starts["c1"]) = MAX_RESTART_COUNT
    /\ services["c1"] # NoSvc
    /\ services["c1"].restart_count = MAX_RESTART_COUNT
    /\ ~services["c1"].active
    /\ ServiceName("c1", "interface") \notin sysd_active

\* C10: once the conn_removed(X) handler has returned there is no unit file
\* for X, no app-registry row for X and no service-map entry for X.
C10_ConnRemovedLeavesNothing ==
    \A x \in ConnIds :
        sup_last = Op("conn_removed", x) =>
            /\ ServiceName(x, "interface") \notin units
            /\ registry[x] = NoRow
            /\ services[x] = NoSvc

C11_ConnAddedStep ==
    \A x \in ConnIds, ok \in BOOLEAN :
        SupConnAdded(x, ok) =>
            /\ conns[x] = NoRow => UNCHANGED <<registry, units, services>>
            /\ (conns[x] # NoRow /\ conns[x].known) =>
                  /\ registry'[x] # NoRow
                  /\ registry'[x].category = "interface"
                  /\ registry'[x].enabled
                  /\ ServiceName(x, "interface") \in units'
                  /\ services'[x] # NoSvc
                  /\ services'[x].active <=> ok

C12_MapMatchesRegistryAfterConnect ==
    (sup_last = Op("start_enabled", "none") /\ rm_pending = "none") =>
        {a \in AppIds : services[a] # NoSvc} = {a \in AppIds : registry[a] # NoRow}

(***************************************************************************)
(* Entitlement claims                                                      *)
(***************************************************************************)
C13_ActivateStep ==
    \A a \in AddonIds, tok \in Tokens, ok \in BOOLEAN :
        (SupActivate(a, tok, ok) /\ events'[Len(events')] = Event("activate_result", "ok")) =>
            /\ registry'[a] # NoRow
            /\ registry'[a].enabled
            /\ registry'[a].license_token = tok
            /\ registry'[a].license_expires_at = tok.exp

C13_SweepStep ==
    \A a \in AddonIds :
        ( /\ \E oks \in SUBSET AddonIds : SupSweep(oks)
          /\ registry[a] # NoRow
          /\ registry[a].license_token # NoToken
          /\ wall >= registry[a].license_expires_at ) =>
            ~registry'[a].enabled

\* C13: a successful activate(app-id, token) leaves the registry row of
\* app-id enabled with expires-at equal to the exp claim of the token, and an
\* entitlement sweep that runs when the epoch time has reached expires-at
\* leaves the row of an activated addon disabled.
C13_EntitlementRoundTrip == [][C13_ActivateStep /\ C13_SweepStep]_vars

\* The sweep has just deactivated vplc, which had been activated.
C13_Witness ==
    /\ sup_last = Op("sweep", "none")
    /\ events = <<Event("addon_deactivated", "vplc")>>
    /\ registry["vplc"] # NoRow
    /\ ~registry["vplc"].enabled
    /\ wall >= 1

C14_FailureStep ==
    \A a \in AppIds, tok \in Tokens, ok \in BOOLEAN :
        (SupActivate(a, tok, ok)
           /\ (~tok.sig_ok \/ tok.exp <= wall \/ tok.app_id # a \/ a \notin AddonIds)) =>
            /\ Len(events') = 1
            /\ events'[1].event = "activate_result"
            /\ events'[1].data # "ok"
            /\ UNCHANGED <<registry, token_cache, units, services>>

\* C14: an activate(app-id, token) whose token fails verification, whose
\* claims name another app-id, or whose app-id is not in the static addon map
\* returns a payload with ok = false, leaves the registry, the token cache,
\* the unit files and the service map unchanged, and publishes no
\* addon_activated event.
C14_ActivateFailureIsQuiet == [][C14_FailureStep]_vars

\* A verified token of another app was refused for vplc.
C14_Witness ==
    /\ sup_last = Op("activate", "vplc")
    /\ license_mgr
    /\ events = <<Event("activate_result", "token app mismatch")>>
    /\ token_cache["vplc"] = NoToken

C15_DeactivateStep ==
    \A a \in AddonIds, ok \in BOOLEAN :
        ( /\ SupDeactivate(a, ok)
          /\ registry[a] # NoRow
          /\ registry[a].enabled
          /\ registry[a].license_token # NoToken ) =>
            /\ <<"stop", a>> \in cli_log'
            /\ ServiceName(a, "addon") \notin units'
            /\ registry'[a].license_token = NoToken
            /\ registry'[a].license_expires_at = Null
            /\ ~registry'[a].enabled
            /\ token_cache'[a] = NoToken
            /\ \E i \in 1..Len(events') : events'[i] = Event("addon_deactivated", a)

\* C15: after deactivate(app-id) has returned for an activated addon, stop
\* was invoked for its service, its unit file is gone, its registry row has a
\* null token, a null expires-at and enabled = false, its cached token is
\* gone, and addon_deactivated carrying the app-id was published.
C15_DeactivateCleansUp == [][C15_DeactivateStep]_vars

(***************************************************************************)
(* Mutex claims                                                            *)
(***************************************************************************)
\* C16: no supervisor code path invokes the service-manager CLI (start,
\* stop, is-active, daemon-reload) while the invoking thread holds the
\* service-map mutex.
C16_NoCliUnderLock == lk_last.k = "cli" => ~lk_last.held

\* C17: every write to a field of a service record and every insertion into
\* or removal from the service map is made by a thread that holds the
\* service-map mutex.
C17_WritesUnderLock == lk_last.k = "write" => lk_last.held

\* C18: an exception raised by on_manage is logged, increments exception_count
\* and leaves the state machine where it is; the manage loop goes on.
C18_ManageFailureCounts ==
    [][DoManage(FALSE) =>
         /\ exception_count' = exception_count + 1
         /\ fsm_state' = fsm_state
         /\ main_pc' = "loop"]_vars

\* Operations that begin a stage handler (disconnect_finish is the tail of a
\* disconnect_handler already in flight).
HandlerStartOps == HandlerOps \ {"disconnect_finish"}

\* The main thread left App.start after attempting the bus teardown; the
\* session is down whenever disconnect() itself did not raise.
Terminated ==
    /\ main_pc = "returned"
    /\ exit_status = 0
    /\ ~subscribed \/ last_op = "main_stop_bus_raise"
    /\ databus # "running" \/ last_op = "main_stop_bus_raise"

C20_ConnChangeExitsWorker ==
    [][ /\ (ConfigReload /\ db_conn # NoRow /\ IsConnInfoChanged(conn_config, db_conn))
            => (exit_status' = 0 /\ reconfigure_event' = reconfigure_event)
        /\ (ConfigReload /\ reconfigure_event' # reconfigure_event)
            => ~IsConnInfoChanged(conn_config, db_conn) ]_vars

\* The part of C20 the code does keep: on a changed tuple sys.exit(0) is
\* called and the reconfigure event is left alone.
C20_ExitCalledNotReconfigure ==
    [][ (ConfigReload /\ db_conn # NoRow /\ IsConnInfoChanged(conn_config, db_conn))
            => (exit_called' = 0 /\ reconfigure_event' = reconfigure_event) ]_vars

\* C21: _is_conn_info_changed(prev, curr) is true exactly when prev and curr
\* differ in at least one of host, port, timeout, retry; a difference in any
\* other key never makes it true.
C21_ConnInfoChangedIffTupleDiffers ==
    cic_pc = "out" =>
        /\ cic_out = (\E k \in {"host", "port", "timeout", "retry"} :
                          Get(cic_prev, k) # Get(cic_curr, k))
        /\ (\A k \in {"host", "port", "timeout", "retry"} :
                Get(cic_prev, k) = Get(cic_curr, k)) => ~cic_out

\* Two configs that differ outside the tuple only, classified as unchanged.
C21_Witness ==
    /\ cic_pc = "out"
    /\ cic_prev # cic_curr
    /\ \E k \in OtherKeys : Get(cic_prev, k) # Get(cic_curr, k)
    /\ ~cic_out

\* C22: no bus callback lets an exception escape to the bus; here the worker's
\* config_reload callback: every invocation returns normally.
C22_ReloadCallbackReturns ==
    [][ConfigReload => last_op' # "reload_raise"]_vars

\* Positions of the daemon-reload commands in the command log.
ReloadPositions == {i \in 1..Len(cn_log) : cn_log[i][1] = "daemon-reload"}

\* Every unit write of the pass succeeded: one per synced connection and one
\* per enabled record.
NoWriteFailed ==
    Cardinality({i \in 1..Len(cn_log) : cn_log[i][1] = "write"})
        = Cardinality(cn_conns) + Cardinality(cn_enabled)

\* C23: during one supervisor CONNECT with at least one enabled connection of
\* a known protocol, exactly one daemon-reload is issued, after every unit
\* write and before every start.
C23_OneReloadPerConnect ==
    (cn_pc = "done" /\ cn_conns # {} /\ NoWriteFailed) =>
        /\ Cardinality(ReloadPositions) = 1
        /\ \A r \in ReloadPositions, i \in 1..Len(cn_log) :
              /\ cn_log[i][1] = "write" => i < r
              /\ cn_log[i][1] = "start" => r < i

\* C24: after deactivate(app-id) returns, the service map has no entry for
\* app-id.
C24_DeactivateRemovesRecord ==
    [][\A a \in AddonIds :
         (\E ok \in BOOLEAN : SupDeactivate(a, ok)) => services'[a] = NoSvc]_vars

\* C25: connect_handler waits on the retry timer first exactly when
\* exception_count >= 1; if the bus connect and on_connect succeed the next
\* state is EXECUTE and exception_count is unchanged; if either raises,
\* exception_count grows by exactly 1 and the next state is RECOVER.
C25_ConnectOutcomes ==
    [][ /\ last_op' \in {"connect_ok", "connect_fail"} =>
              retry_waited' = (exception_count >= 1)
        /\ last_op' = "connect_ok" =>
              (fsm_state' = "EXECUTE" /\ exception_count' = exception_count)
        /\ last_op' = "connect_fail" =>
              (fsm_state' = "RECOVER" /\ exception_count' = exception_count + 1) ]_vars

\* A connect attempt that waited on the retry timer and then failed again.
C25_Witness ==
    /\ last_op = "connect_fail"
    /\ retry_waited
    /\ fsm_state = "RECOVER"
    /\ exception_count = 2

\* C26: in RECOVER, on_recover returning leads to EXECUTE and on_recover
\* raising leads to DISCONNECT; the handler goes nowhere else and never
\* stops the engine or exits the process.
C26_RecoverOutcomes ==
    [][ /\ last_op' = "recover_ok" => fsm_state' = "EXECUTE"
        /\ last_op' = "recover_fail" => fsm_state' = "DISCONNECT"
        /\ last_op' \in {"recover_ok", "recover_fail"} =>
              /\ fsm_state = "RECOVER"
              /\ fsm_running' = fsm_running
              /\ exit_called' = exit_called
              /\ exit_status' = exit_status ]_vars

\* A failed recovery that has moved the engine to DISCONNECT.
C26_Witness ==
    /\ last_op = "recover_fail"
    /\ fsm_state = "DISCONNECT"
    /\ fsm_running /\ exit_called = -1

\* C27: DISCONNECT always ends in CONNECT: whether on_disconnect returns or
\* raises the handler goes on to the bus teardown, and whether the teardown
\* returns or raises connect.done and execute.done are false afterwards and
\* the next state is CONNECT; DISCONNECT is left in no other way.
C27_DisconnectEndsInConnect ==
    [][ /\ last_op' \in {"disconnect_hook_ok", "disconnect_hook_fail"} =>
              (fsm_state' = "DISCONNECT" /\ hpc' = "hooked")
        /\ last_op' = "disconnect_finish" =>
              /\ hpc = "hooked"
              /\ databus' \in {"created", databus}
              /\ ~done'["connect"] /\ ~done'["execute"]
              /\ fsm_state' = "CONNECT"
        /\ (fsm_state = "DISCONNECT" /\ fsm_state' # fsm_state) =>
              last_op' = "disconnect_finish" ]_vars

\* The teardown raised and left the session up, and the engine is in CONNECT
\* with both flags cleared.
C27_Witness ==
    /\ last_op = "disconnect_finish"
    /\ fsm_state = "CONNECT"
    /\ databus = "running"
    /\ ~done["connect"] /\ ~done["execute"]

\* The steps of a healthcheck pass in which the starts of exactly oks succeed.
C28_Probed(a) == services[a] # NoSvc /\ services[a].enabled /\ services[a].active

C28_FoundDead(a) ==
    C28_Probed(a) /\ ServiceName(a, services[a].category) \notin sysd_active

\* restart_count as the pass sees it after its quiet-interval reset.
C28_CountAfterReset(a) ==
    IF now - services[a].last_restart_ts > RESTART_COUNT_RESET_S THEN 0
    ELSE services[a].restart_count

\* C28 as stated: a probed service found dead with restart_count < 5 is
\* started once; on success restart_count grows by exactly 1 and last_restart
\* becomes the pass's timestamp, on failure active becomes false and
\* restart_count and last_restart are unchanged; other records are unchanged.
C28_HealthcheckFrame ==
    [][\A oks \in SUBSET AppIds : SupHealthcheck(oks) =>
         \A a \in AppIds :
           /\ ~C28_FoundDead(a) => (services'[a] = services[a] /\ a \notin oks)
           /\ (C28_FoundDead(a) /\ services[a].restart_count < MAX_RESTART_COUNT) =>
                 /\ Len(hc_starts'[a]) = Len(hc_starts[a]) + 1
                 /\ a \in oks =>
                       services'[a] = [services[a] EXCEPT
                                         !.restart_count = services[a].restart_count + 1,
                                         !.last_restart_ts = now]
                 /\ a \notin oks =>
                       services'[a] = [services[a] EXCEPT !.active = FALSE]]_vars

\* C28 amended: the same, with restart_count taken after the pass's
\* quiet-interval reset (0 when more than 300 s have passed since the last
\* restart): the limit test, the increment on success and the value left on
\* failure all refer to the reset counter.
C28_HealthcheckFrameAfterReset ==
    [][\A oks \in SUBSET AppIds : SupHealthcheck(oks) =>
         \A a \in AppIds :
           /\ ~C28_FoundDead(a) => (services'[a] = services[a] /\ a \notin oks)
           /\ (C28_FoundDead(a) /\ C28_CountAfterReset(a) < MAX_RESTART_COUNT) =>
                 /\ Len(hc_starts'[a]) = Len(hc_starts[a]) + 1
                 /\ a \in oks =>
                       services'[a] = [services[a] EXCEPT
                                         !.restart_count = C28_CountAfterReset(a) + 1,
                                         !.last_restart_ts = now]
                 /\ a \notin oks =>
                       services'[a] = [services[a] EXCEPT
                                         !.restart_count = C28_CountAfterReset(a),
                                         !.active = FALSE]]_vars

\* A service restarted successfully by the latest pass, more than a quiet
\* interval after the supervisor started.
C28_Witness ==
    /\ sup_last.op = "healthcheck"
    /\ \E a \in AppIds :
          /\ services[a] # NoSvc
          /\ services[a].active
          /\ services[a].restart_count = 1
          /\ services[a].last_restart_ts = now
          /\ now > RESTART_COUNT_RESET_S

\* C29: suppression of fallback logs ends at the next successful EXECUTE
\* iteration, so the first exception raised after a successful EXECUTE
\* iteration is always logged.
C29_FirstExceptionAfterSuccessLogged ==
    [][(last_op = "execute_ok" /\ last_op' = "execute_fail")
          => LogFallbackLogs(exception_count')]_vars

\* C30: on each successful EXECUTE tick the sample added to the meter is the
\* elapsed time of that same tick's on_execute call, and a tick whose
\* on_execute raises adds no sample.
C30_SampleIsThisTick ==
    /\ mt_last.ok => mt_last.added = mt_last.took
    /\ ~mt_last.ok => mt_last.added = -1

\* The part of C30 the code keeps: a tick whose on_execute raises adds no
\* sample and leaves elapsed_time alone.
C30_FailedTickAddsNothing ==
    [][\A took \in Durations, wait \in Waits : MeterTick(FALSE, took, wait) =>
         (mt_samples' = mt_samples /\ mt_elapsed' = mt_elapsed)]_vars

\* C31: whenever the engine is in EXECUTE, the most recent CONNECT attempt
\* succeeded (connect.done is true), and on_execute never runs after a failed
\* CONNECT without a successful CONNECT in between.
C31_ExecuteImpliesConnected ==
    /\ [](fsm_state = "EXECUTE" => done["connect"])
    /\ [][last_op' \in {"execute_ok", "execute_fail"} => done["connect"]]_vars

\* C32: the store handle opened in PREPARE is open whenever a bus callback
\* uses it, also after a DISCONNECT -> CONNECT cycle in which on_disconnect
\* closed it.
C32_StoreOpenWhenUsed ==
    [][ConfigReload => db_handle = "open"]_vars

\* C33: for every interleaving of conn_removed(X) with a healthcheck pass, the
\* pass does not bring X's service up once the handler has begun removing X
\* (so X is not left running after its unit, row and map entry are gone).
C33_NoStartAfterRemovalStop ==
    [][\A oks \in SUBSET AppIds :
         (SupHealthcheck(oks) /\ rm_pending # "none") =>
             (ServiceName(rm_pending, "interface") \in sysd_active' =>
                  ServiceName(rm_pending, "interface") \in sysd_active)]_vars

\* C34: a deactivate(X) that removes X's unit file has invoked the service
\* manager's stop for X, whatever the in-memory active flag was.
C34_StopBeforeUnitRemoval ==
    [][\A a \in AddonIds, ok \in BOOLEAN :
         ( /\ SupDeactivate(a, ok)
           /\ ServiceName(a, "addon") \in units
           /\ ServiceName(a, "addon") \notin units' ) =>
             <<"stop", a>> \in cli_log']_vars

\* C35: a config_reload callback arriving on a bus thread while the worker is
\* in EXECUTE does not replace the loaded connection config; the config is
\* replaced only by the FSM driver inside PREPARE or CONFIGURE.
C35_ReloadKeepsLoadedConfig ==
    [][(ConfigReload /\ fsm_state = "EXECUTE" /\ fsm_running) =>
           conn_config' = conn_config]_vars

\* C36: the deactivate command for X leaves the registry row and the
\* service-map entry of an interface worker whose app-id is X unchanged.
C36_DeactivateLeavesInterface ==
    [][\A x \in AppIds, ok \in BOOLEAN :
         ( /\ SupDeactivate(x, ok)
           /\ services[x] # NoSvc
           /\ services[x].category = "interface" ) =>
             /\ services'[x] = services[x]
             /\ registry'[x] = registry[x]]_vars

\* C37: the conn_added handler skips a connection whose use-flag is cleared:
\* it creates no registry row, no unit file and no running service for it.
C37_ConnAddedSkipsUnused ==
    [][\A x \in ConnIds, ok \in BOOLEAN :
         ( /\ SupConnAdded(x, ok)
           /\ conns[x] # NoRow
           /\ ~conns[x].use ) =>
             /\ registry'[x] = registry[x]
             /\ units' = units
             /\ sysd_active' = sysd_active]_vars

\* C38: CONNECT does not start an enabled addon whose expires-at is already
\* at or before the current time.
C38_ConnectSkipsExpiredAddon ==
    [][\A oks \in SUBSET AppIds :
         SupStartEnabled(oks) =>
             \A a \in oks :
                 ( /\ services[a].category = "addon"
                   /\ registry[a] # NoRow
                   /\ registry[a].license_expires_at # Null ) =>
                     registry[a].license_expires_at > wall]_vars

\* C39: exception_count >= 1 holds whenever the engine is in DISCONNECT and
\* when it leaves DISCONNECT for CONNECT; the counter does not change while
\* CONNECT waits for its handler; and a connect attempt made with
\* exception_count >= 1 waits on the retry timer first.  Hence every CONNECT
\* attempt that follows a DISCONNECT waits, and an attempt without the wait
\* is made with exception_count = 0.
C39_ConnectAfterDisconnectWaits ==
    /\ [](fsm_state = "DISCONNECT" => exception_count >= 1)
    /\ [][ /\ (fsm_state # "DISCONNECT" /\ fsm_state' = "DISCONNECT") => exception_count' >= 1
           /\ (fsm_state = "DISCONNECT" /\ fsm_state' = "CONNECT") => exception_count' >= 1
           /\ (fsm_state = "CONNECT" /\ last_op' \notin {"connect_ok", "connect_fail"}) =>
                  exception_count' = exception_count
           /\ (last_op' \in {"connect_ok", "connect_fail"} /\ exception_count >= 1) =>
                  retry_waited'
           /\ (last_op' \in {"connect_ok", "connect_fail"} /\ ~retry_waited') =>
                  exception_count = 0 ]_vars

\* A connect attempt right after a DISCONNECT, made after the wait.
C39_Witness ==
    /\ last_op = "connect_ok"
    /\ retry_waited
    /\ done["disconnect"]
    /\ exception_count >= 2

\* C40: a healthcheck pass leaves every record whose active flag is false as
\* it is (the flag stays false), issues no start for it and does not bring
\* its service up, however long ago its last restart was.  The steps taken
\* are the passes themselves and the steps of the environment that follow a
\* pass without the clock advancing.
C40_HealthcheckSkipsInactive ==
    [][(sup_last'.op = "healthcheck" /\ now' = now) =>
         \A a \in AppIds :
             (services[a] # NoSvc /\ ~services[a].active) =>
                 /\ services'[a] = services[a]
                 /\ hc_starts'[a] = hc_starts[a]
                 /\ (ServiceName(a, services[a].category) \in sysd_active' =>
                        ServiceName(a, services[a].category) \in sysd_active)]_vars

\* A pass has just left alone a service that the throttle had marked
\* inactive, more than RESTART_COUNT_RESET_S after its last restart.
C40_Witness ==
    /\ sup_last.op = "healthcheck"
    /\ \E a \in AppIds :
          /\ services[a] # NoSvc
          /\ services[a].enabled /\ ~services[a].active
          /\ services[a].restart_count = MAX_RESTART_COUNT
          /\ now - services[a].last_restart_ts > RESTART_COUNT_RESET_S
          /\ ServiceName(a, services[a].category) \notin sysd_active
====
